---------------------------- MODULE Spec2Model ----------------------------
(***************************************************************************)
(* Model of src/utils/registry.ts: the module-metadata orchestrator        *)
(* fetchModuleMetadata, the branch/tag fetcher fetchModuleBranchtags and   *)
(* the pure helpers they use.                                              *)
(*                                                                         *)
(* JavaScript strings that the code inspects or builds character by        *)
(* character (segments, file names, paths, hrefs, ref names) are sequences *)
(* of one-character strings.  Nullable JavaScript values are records with  *)
(* a tag field t: "null", "undefined", "string", "array", "object".        *)
(***************************************************************************)
EXTENDS Naturals, Sequences, FiniteSets, TLC

(* ------------------------------ bounds --------------------------------- *)

\* longest path below the module segment (segments has 1 + MaxTail entries)
MaxTail == 2

\* longest branch list and longest tag list an upstream answers with
MaxRefs == 1

\* longest directory listing an upstream answers with
MaxEntries == 2

(* --------------------------- JavaScript values ------------------------- *)

Null == [t |-> "null"]

Undefined == [t |-> "undefined"]

Str(s) == [t |-> "string", v |-> s]

\* a string the code hands on without looking inside it (never empty)
Text(s) == [t |-> "text", v |-> s]

Arr(s) == [t |-> "array", v |-> s]

Obj(r) == [t |-> "object", v |-> r]

\* ToBoolean of the values the model produces (!branchtag, if (module), if (tree))
Truthy(v) ==
  CASE v.t = "null" -> FALSE
    [] v.t = "undefined" -> FALSE
    [] v.t = "string" -> v.v # <<>>
    [] OTHER -> TRUE

\* Array.isArray
IsArray(v) == v.t = "array"

\* obj.field of a decoded JSON object: undefined when the field is absent
Field(o, f) == IF o.t = "object" /\ f \in DOMAIN o.v THEN o.v[f] ELSE Undefined

\* `${v}` inside a template literal
Template(v) ==
  CASE v.t = "null" -> <<"n", "u", "l", "l">>
    [] v.t = "undefined" -> <<"u", "n", "d", "e", "f", "i", "n", "e", "d">>
    [] OTHER -> v.v

(* ------------------------------ strings -------------------------------- *)

LowerLetters ==
  <<"a", "b", "c", "d", "e", "f", "g", "h", "i", "j", "k", "l", "m",
    "n", "o", "p", "q", "r", "s", "t", "u", "v", "w", "x", "y", "z">>

UpperLetters ==
  <<"A", "B", "C", "D", "E", "F", "G", "H", "I", "J", "K", "L", "M",
    "N", "O", "P", "Q", "R", "S", "T", "U", "V", "W", "X", "Y", "Z">>

Digits == {"0", "1", "2", "3", "4", "5", "6", "7", "8", "9"}

Range(s) == {s[k] : k \in DOMAIN s}

UpperSet == Range(UpperLetters)

LowerSet == Range(LowerLetters)

LowerChar(c) ==
  IF c \in UpperSet
    THEN LowerLetters[CHOOSE k \in DOMAIN UpperLetters : UpperLetters[k] = c]
    ELSE c

\* String.prototype.toLowerCase
toLowerCase(s) == [k \in DOMAIN s |-> LowerChar(s[k])]

\* Array.prototype.slice(from, to) with 0-based from (inclusive), to (exclusive)
Slice(s, from, to) == SubSeq(s, from + 1, IF to < Len(s) THEN to ELSE Len(s))

RECURSIVE Join(_, _)
\* Array.prototype.join(sep) on an array of strings
Join(ss, sep) ==
  IF Len(ss) = 0 THEN <<>>
  ELSE IF Len(ss) = 1 THEN ss[1]
  ELSE ss[1] \o sep \o Join(Tail(ss), sep)

(* ------------------- the segment pattern (line 80) --------------------- *)

\* the character class [0-9a-z-_]
IdChars == Digits \cup LowerSet \cup {"-", "_"}

IdChar(c) == c \in IdChars

\* /([0-9a-z-_]+)(?:@(.+))?/.exec(s): the pattern is not anchored, so the
\* match starts at the first character of the class anywhere in s; group 1
\* is the longest run of class characters from there; group 2 is everything
\* after an "@" that directly follows the run, when at least one character
\* follows it.  No class character at all: exec returns null.
RegExec(s) ==
  IF \A k \in DOMAIN s : ~IdChar(s[k]) THEN Null
  ELSE
    LET from == CHOOSE k \in DOMAIN s :
                  IdChar(s[k]) /\ \A j \in 1..(k - 1) : ~IdChar(s[j])
        to == CHOOSE k \in from..Len(s) :
                /\ \A j \in from..k : IdChar(s[j])
                /\ (k = Len(s) \/ ~IdChar(s[k + 1]))
    IN Obj([g1 |-> Str(SubSeq(s, from, to)),
            g2 |-> IF to + 2 <= Len(s) /\ s[to + 1] = "@"
                     THEN Str(SubSeq(s, to + 2, Len(s)))
                     ELSE Undefined])


(* --------------------- the module registry (external) ------------------ *)

\* fetchModule(name) of @/services/registry: the reference stored under the
\* name, or nothing.  The stored type is data: nothing in the lookup limits
\* it to the two providers the helpers know.
fetchModule(name) ==
  CASE name = <<"f", "o", "o">> ->
         Obj([type |-> "GitHub", org |-> "denoland", repo |-> "foo"])
    [] name = <<"l", "a", "b">> ->
         Obj([type |-> "GitLab", org |-> "inkscape", repo |-> "lab"])
    [] name = <<"b", "b">> ->
         Obj([type |-> "Bitbucket", org |-> "atlassian", repo |-> "bb"])
    [] OTHER -> Null

\* getGitHubHeaders() of @/services/github: opaque to this file
getGitHubHeaders == Text("github-headers")

(* ----------------------------- URL builders ---------------------------- *)

Thrown(msg) == [t |-> "throw", message |-> msg]

\* a request target: the fixed part of the URL, and for the contents
\* endpoint the interpolated path and ref
Url(base) == [base |-> base, path |-> <<>>, ref |-> <<>>]

createRepoUrl(m) ==
  CASE m.type = "GitHub" -> Text("https://github.com/" \o m.org \o "/" \o m.repo)
    [] m.type = "GitLab" -> Text("https://gitlab.com/" \o m.org \o "/" \o m.repo)
    [] OTHER -> Thrown("invalid module type")

GitHubBranchesUrl(m) ==
  Url("https://api.github.com/repos/" \o m.org \o "/" \o m.repo \o "/branches")

GitHubTagsUrl(m) ==
  Url("https://api.github.com/repos/" \o m.org \o "/" \o m.repo \o "/tags")

GitLabRefsUrl(m) == Url("https://gitlab.com/" \o m.org \o "/" \o m.repo \o "/refs")

\* the two GitHub endpoints in the other order
createBranchtagUrlsTagsFirst(m) ==
  CASE m.type = "GitHub" -> Arr(<<GitHubTagsUrl(m), GitHubBranchesUrl(m)>>)
    [] m.type = "GitLab" -> Arr(<<GitLabRefsUrl(m)>>)
    [] OTHER -> Thrown("invalid module type")

createBranchtagUrls(m) ==
  CASE m.type = "GitHub" -> Arr(<<GitHubBranchesUrl(m), GitHubTagsUrl(m)>>)
    [] m.type = "GitLab" -> Arr(<<GitLabRefsUrl(m)>>)
    [] OTHER -> Thrown("invalid module type")

\* line 101
DefaultBranchUrl(m) == Url("https://api.github.com/repos/" \o m.org \o "/" \o m.repo)

\* line 131: .../contents${path}?ref=${branchtag}
TreeUrl(m, p, b) ==
  [base |-> "https://api.github.com/repos/" \o m.org \o "/" \o m.repo \o "/contents",
   path |-> p, ref |-> Template(b)]

(* ------------------------- transformBranchtags ------------------------- *)

\* (data as any[]).map(({ name }) => name): a TypeError unless data is an array
\* [...data.Branches, ...data.Tags]: a TypeError unless both are arrays
transformBranchtags(data, type) ==
  CASE type = "GitHub" ->
         IF IsArray(data)
           THEN Arr([k \in DOMAIN data.v |-> Field(data.v[k], "name")])
           ELSE Thrown("TypeError")
    [] type = "GitLab" ->
         IF IsArray(Field(data, "Branches")) /\ IsArray(Field(data, "Tags"))
           THEN Arr(Field(data, "Branches").v \o Field(data, "Tags").v)
           ELSE Thrown("TypeError")
    [] OTHER -> Thrown("invalid module type")

(* --------------------- breadcrumbs, path, tree steps ------------------- *)

\* the slice stops one element early
BreadcrumbEndShort(i) == i

\* lines 118-122: sx.map((_, i) => [sx[i], `/${sx.slice(0, i + 1).join("/")}`])
BreadcrumbEnd(i) == i + 1

Breadcrumbs(segs) ==
  LET sx == <<(<<"x">>)>> \o segs
  IN [k \in DOMAIN sx |->
        <<sx[k], <<"/">> \o Join(Slice(sx, 0, BreadcrumbEnd(k - 1)), <<"/">>)>>]

\* line 125: `/${segments.slice(1).join("/")}`
Path(segs) == <<"/">> \o Join(Slice(segs, 1, Len(segs)), <<"/">>)

\* position of a lowercase letter, for comparing type names
LetterIndex(c) == CHOOSE k \in DOMAIN LowerLetters : LowerLetters[k] = c

RECURSIVE localeCompare(_, _)
\* a.localeCompare(b) on lowercase ASCII words: -1, 0, 1 as 0, 1, 2
localeCompare(a, b) ==
  IF a = <<>> /\ b = <<>> THEN 1
  ELSE IF a = <<>> THEN 0
  ELSE IF b = <<>> THEN 2
  ELSE IF LetterIndex(Head(a)) < LetterIndex(Head(b)) THEN 0
  ELSE IF LetterIndex(Head(a)) > LetterIndex(Head(b)) THEN 2
  ELSE localeCompare(Tail(a), Tail(b))

RECURSIVE InsertByType(_, _)
\* e goes after every entry that does not compare greater than it
InsertByType(sorted, e) ==
  IF sorted = <<>> THEN <<e>>
  ELSE IF localeCompare(sorted[Len(sorted)].type, e.type) <= 1
    THEN Append(sorted, e)
    ELSE Append(InsertByType(SubSeq(sorted, 1, Len(sorted) - 1), e),
                sorted[Len(sorted)])

RECURSIVE SortByType(_)
\* line 151: tree.sort((a, b) => a.type.localeCompare(b.type)), a stable sort
SortByType(entries) ==
  IF entries = <<>> THEN <<>>
  ELSE InsertByType(SortByType(SubSeq(entries, 1, Len(entries) - 1)),
                    entries[Len(entries)])

\* line 155: the predicate of tree.find
IsReadme(entry) == toLowerCase(entry.name) = <<"r", "e", "a", "d", "m", "e", ".", "m", "d">>

\* lines 154-156: the first entry the predicate accepts, or undefined
FindReadme(entries) ==
  IF \E k \in DOMAIN entries : IsReadme(entries[k])
    THEN Obj(entries[CHOOSE k \in DOMAIN entries :
                       IsReadme(entries[k]) /\ \A j \in 1..(k - 1) : ~IsReadme(entries[j])])
    ELSE Undefined

\* Buffer.from(content, encoding).toString()
BufferDecode(text, encoding) ==
  CASE encoding = "base64" /\ text = "aGk=" -> Text("hi")
    [] encoding = "base64" /\ text = "hi" -> Text("U+FFFD")
    [] encoding = "utf8" -> Text(text)
    [] OTHER -> Thrown("TypeError: unknown encoding")

\* lines 170-172
FileContent(file) ==
  IF Truthy(Field(file, "encoding"))
    THEN BufferDecode(Field(file, "content").v, Field(file, "encoding").v)
    ELSE Field(file, "content")


(* ------------------------------- inputs -------------------------------- *)

\* values of segment 0
Segment0Pool ==
  { <<"f", "o", "o">>,
    <<"f", "o", "o", "@", "v", "1">>,
    <<"l", "a", "b">>,
    <<"l", "a", "b", "@", "v", "1">>,
    <<"b", "b">>,
    <<"n", "o", "p", "e">>,
    <<"F", "o", "o">>,
    <<"m", "y", ".", "m", "o", "d">>,
    <<"F", "O", "O">> }

\* the segments after segment 0 are a prefix of this path
FullPath ==
  << <<"b", "a", "r">>, <<"b", "a", "z">>, <<"q", "u", "x">>, <<"m", "o", "d", ".", "t", "s">> >>

Tails == {SubSeq(FullPath, 1, n) : n \in {k \in 0..MaxTail : k <= Len(FullPath)}}

SeqsUpTo(S, n) == UNION {[1..k -> S] : k \in 0..n}

(* --------------------------- upstream answers -------------------------- *)

\* fetch rejects
NetFail == [t |-> "netfail"]

\* a body resp.json() rejects
Invalid == [t |-> "invalid"]

Resp(ok, body) == [t |-> "response", ok |-> ok, body |-> body]

ErrorBody == Obj([message |-> Text("Not Found")])

\* branch names and tag names of the upstream repositories: v1 is both
BranchNames == {Str(<<"m", "a", "i", "n">>), Str(<<"v", "1">>)}

TagNames == {Str(<<"v", "1">>)}

BranchLists == SeqsUpTo(BranchNames, MaxRefs)

TagLists == SeqsUpTo(TagNames, MaxRefs)

GitHubRefs(names) == Arr([k \in DOMAIN names |-> Obj([name |-> names[k]])])

RepoResponses ==
  { NetFail, Resp(TRUE, Invalid), Resp(FALSE, ErrorBody),
    Resp(TRUE, Obj([default_branch |-> Str(<<"m", "a", "i", "n">>)])) }

GitHubBranchesResponses ==
  {NetFail, Resp(TRUE, Invalid), Resp(FALSE, ErrorBody)}
    \cup {Resp(TRUE, GitHubRefs(l)) : l \in BranchLists}

GitHubTagsResponses ==
  {NetFail, Resp(TRUE, Invalid), Resp(FALSE, ErrorBody)}
    \cup {Resp(TRUE, GitHubRefs(l)) : l \in TagLists}

GitLabRefsResponses ==
  {NetFail, Resp(TRUE, Invalid), Resp(FALSE, ErrorBody)}
    \cup {Resp(TRUE, Obj([Branches |-> Arr(b), Tags |-> Arr(g)])) :
             b \in BranchLists, g \in TagLists}

EntryPool ==
  { [name |-> <<"R", "E", "A", "D", "M", "E", ".", "m", "d">>, type |-> <<"f", "i", "l", "e">>,
     download_url |-> Text("https://raw.githubusercontent.com/README.md")],
    [name |-> <<"m", "o", "d", ".", "t", "s">>, type |-> <<"f", "i", "l", "e">>,
     download_url |-> Text("https://raw.githubusercontent.com/mod.ts")],
    [name |-> <<"s", "r", "c">>, type |-> <<"d", "i", "r">>,
     download_url |-> Text("https://raw.githubusercontent.com/src")] }

\* directory listings: no entry twice
Listings ==
  {l \in SeqsUpTo(EntryPool, MaxEntries) : \A j, k \in DOMAIN l : l[j] = l[k] => j = k}

Files ==
  { Obj([name |-> Str(<<"m", "o", "d", ".", "t", "s">>), content |-> Text("aGk="),
         encoding |-> Text("base64"),
         download_url |-> Text("https://raw.githubusercontent.com/mod.ts")]),
    Obj([name |-> Str(<<"m", "o", "d", ".", "t", "s">>), content |-> Text("hi"),
         download_url |-> Text("https://raw.githubusercontent.com/mod.ts")]),
    Obj([name |-> Str(<<"m", "o", "d", ".", "t", "s">>), content |-> Text("uv"),
         encoding |-> Text("rot13"),
         download_url |-> Text("https://raw.githubusercontent.com/mod.ts")]) }

ContentsResponses ==
  {NetFail, Resp(TRUE, Invalid), Resp(FALSE, Invalid), Resp(FALSE, ErrorBody)}
    \cup {Resp(TRUE, Arr(l)) : l \in Listings}
    \cup {Resp(TRUE, f) : f \in Files}

RawResponses ==
  {NetFail, Resp(TRUE, Text("# foo")), Resp(FALSE, Text("404: Not Found"))}


(* -------------------------------- state -------------------------------- *)

VARIABLES
  segments,     \* the argument of the calls
  upstream,     \* what each URL asked so far answered: a URL answers the same again
  outcome,      \* per isApi: how the call with that flag ended
  pc,           \* where the running call of fetchModuleMetadata stands
  isApi,
  moduleName,
  branchtag,
  meta,
  headers,
  branchtags,
  breadcrumbs,
  path,
  tree,
  errors,
  content,
  readme,
  sourceUrl,
  urls,         \* fetchModuleBranchtags: urls
  refs,         \* fetchModuleBranchtags: refs
  idx,          \* fetchModuleBranchtags: position of the for loop in urls
  inflight,     \* requests sent and not yet answered
  log           \* the requests of the running call, in the order sent

env == <<segments, upstream, outcome>>

parsed == <<moduleName, branchtag>>

found == <<meta, headers>>

listed == <<branchtags, breadcrumbs>>

treed == <<path, tree, errors>>

filed == <<content, readme, sourceUrl>>

loop == <<urls, refs, idx>>

net == <<inflight, log>>

vars == <<env, pc, isApi, parsed, found, listed, treed, filed, loop, net>>

NoOutcome == [kind |-> "none", value |-> Null, log |-> <<>>]

LocalsInit ==
  /\ pc = "idle"
  /\ isApi = FALSE
  /\ moduleName = Null
  /\ branchtag = Null
  /\ meta = Null
  /\ headers = Undefined
  /\ branchtags = Null
  /\ breadcrumbs = Null
  /\ path = Null
  /\ tree = Null
  /\ errors = Null
  /\ content = Null
  /\ readme = Null
  /\ sourceUrl = Null
  /\ urls = <<>>
  /\ refs = <<>>
  /\ idx = 0
  /\ inflight = {}
  /\ log = <<>>

Init ==
  /\ segments \in {<<s0>> \o t : s0 \in Segment0Pool, t \in Tails}
  /\ upstream = {}
  /\ outcome = [a \in BOOLEAN |-> NoOutcome]
  /\ LocalsInit

(* ------------------------------ plumbing ------------------------------- *)

\* the call ends: by a return (kind "returned") or an uncaught exception
\* (kind "threw"); its frame is gone
End(kind, value, lg) ==
  /\ outcome' = [outcome EXCEPT ![isApi] = [kind |-> kind, value |-> value, log |-> lg]]
  /\ pc' = "idle"
  /\ isApi' = FALSE
  /\ moduleName' = Null
  /\ branchtag' = Null
  /\ meta' = Null
  /\ headers' = Undefined
  /\ branchtags' = Null
  /\ breadcrumbs' = Null
  /\ path' = Null
  /\ tree' = Null
  /\ errors' = Null
  /\ content' = Null
  /\ readme' = Null
  /\ sourceUrl' = Null
  /\ urls' = <<>>
  /\ refs' = <<>>
  /\ idx' = 0
  /\ inflight' = {}
  /\ log' = <<>>

\* fetch(url, { headers }) up to its await
Send(url, hdrs) ==
  /\ inflight' = inflight \cup {url}
  /\ log' = Append(log, [url |-> url, headers |-> hdrs])

\* the answers a URL can give: the one it gave before, or any of its kind
Answers(url, choices) ==
  IF \E e \in upstream : e.url = url
    THEN {e.resp : e \in {x \in upstream : x.url = url}}
    ELSE choices

\* the awaited fetch of the one request in flight settles with resp
Settle(url, resp) ==
  /\ upstream' = upstream \cup {[url |-> url, resp |-> resp]}
  /\ inflight' = inflight \ {url}

Pending == CHOOSE u \in inflight : TRUE

\* the awaited fetch, or the decoding of what it answered, throws: nothing
\* in the file catches it
Fail(url, resp, msg) ==
  /\ End("threw", Thrown(msg), log)
  /\ upstream' = upstream \cup {[url |-> url, resp |-> resp]}
  /\ UNCHANGED segments

(* ------------------------- fetchModuleMetadata ------------------------- *)

\* the not-found result carries the other fields as nulls
NotFoundResultPadded(segs) ==
  [meta |-> Null, branchtag |-> Null, branchtags |-> Null, segments |-> segs,
   breadcrumbs |-> Null, path |-> Null, tree |-> Null, readme |-> Null,
   content |-> Null, sourceUrl |-> Null, errors |-> Null]

\* line 197
NotFoundResult(segs) == [segments |-> segs]

\* lines 182-194
FullResult ==
  [meta |-> meta, branchtag |-> branchtag, branchtags |-> branchtags,
   segments |-> segments, breadcrumbs |-> breadcrumbs, path |-> path,
   tree |-> tree, readme |-> readme, content |-> content,
   sourceUrl |-> sourceUrl, errors |-> errors]

\* the branch/tag list is fetched in API mode too
WantsBranchtagsAlways(api) == TRUE

\* line 115
WantsBranchtags(api) == ~api

\* the GitLab branch asks for a tree as the GitHub branch does
FetchesTreeGitLabToo(type) == type \in {"GitHub", "GitLab"}

\* line 130
FetchesTree(type) == type = "GitHub"

\* a failed contents request leaves errors null
TreeOutcomeDropsError(resp) ==
  IF resp.ok THEN [tree |-> resp.body, errors |-> Null]
  ELSE [tree |-> Null, errors |-> Null]

\* the body of a failed contents request is kept as tree as well
TreeOutcomeKeepsBody(resp) ==
  IF resp.ok THEN [tree |-> resp.body, errors |-> Null]
  ELSE [tree |-> resp.body, errors |-> resp.body]

\* lines 133-137: what the contents response leaves in tree and errors
TreeOutcome(resp) ==
  IF resp.ok THEN [tree |-> resp.body, errors |-> Null]
  ELSE [tree |-> Null, errors |-> resp.body]

\* a caller calls fetchModuleMetadata({ segments, isApi: api })
Invoke(api) ==
  /\ pc = "idle"
  /\ outcome[api].kind = "none"
  /\ isApi' = api
  /\ pc' = "parse"
  /\ UNCHANGED <<env, parsed, found, listed, treed, filed, loop, net>>

\* lines 80-81: destructuring null throws
ParseSegments ==
  /\ pc = "parse"
  /\ LET captured == RegExec(segments[1])
     IN IF captured = Null
          THEN End("threw", Thrown("TypeError"), log) /\ UNCHANGED <<segments, upstream>>
          ELSE /\ moduleName' = captured.v.g1
               /\ branchtag' = IF captured.v.g2 = Undefined THEN Null ELSE captured.v.g2
               /\ pc' = "lookup"
               /\ UNCHANGED <<env, isApi, found, listed, treed, filed, loop, net>>

\* lines 83-97 and 197
LookupModule ==
  /\ pc = "lookup"
  /\ LET module == fetchModule(moduleName.v)
     IN IF ~Truthy(module)
          THEN End("returned", NotFoundResult(segments), log)
               /\ UNCHANGED <<segments, upstream>>
          ELSE LET repoUrl == createRepoUrl(module.v)
               IN IF repoUrl.t = "throw"
                    THEN End("threw", repoUrl, log) /\ UNCHANGED <<segments, upstream>>
                    ELSE /\ meta' = Obj([name |-> moduleName, type |-> module.v.type,
                                         org |-> module.v.org, repo |-> module.v.repo,
                                         repoUrl |-> repoUrl])
                         /\ headers' = IF module.v.type = "GitHub"
                                         THEN getGitHubHeaders ELSE Undefined
                         /\ pc' = "resolve"
                         /\ UNCHANGED <<env, isApi, parsed, listed, treed, filed, loop, net>>

\* lines 99-110, up to the await of line 102
ResolveBranchtag ==
  /\ pc = "resolve"
  /\ IF Truthy(branchtag)
       THEN pc' = "branchtags" /\ UNCHANGED <<branchtag, net>>
       ELSE CASE meta.v.type = "GitHub" ->
                   /\ Send(DefaultBranchUrl(meta.v), headers)
                   /\ pc' = "awaitDefault"
                   /\ UNCHANGED branchtag
              [] meta.v.type = "GitLab" ->
                   pc' = "branchtags" /\ UNCHANGED <<branchtag, net>>
              [] OTHER ->
                   /\ branchtag' = Str(<<"m", "a", "s", "t", "e", "r">>)
                   /\ pc' = "branchtags"
                   /\ UNCHANGED net
  /\ UNCHANGED <<env, isApi, moduleName, found, listed, treed, filed, loop>>

\* lines 102-104
ReceiveDefaultBranch ==
  /\ pc = "awaitDefault"
  /\ \E resp \in Answers(Pending, RepoResponses) :
       IF resp = NetFail THEN Fail(Pending, resp, "fetch failed")
       ELSE IF resp.body = Invalid THEN Fail(Pending, resp, "SyntaxError")
       ELSE /\ Settle(Pending, resp)
            /\ branchtag' = Field(resp.body, "default_branch")
            /\ pc' = "branchtags"
            /\ UNCHANGED <<segments, outcome, isApi, moduleName, found, listed,
                           treed, filed, loop, log>>

\* lines 112-116 and 60-66: API mode goes on to the tree; otherwise
\* fetchModuleBranchtags(meta) starts
StartBranchtags ==
  /\ pc = "branchtags"
  /\ IF WantsBranchtags(isApi)
       THEN LET u == createBranchtagUrls(meta.v)
            IN IF u.t = "throw"
                 THEN End("threw", u, log) /\ UNCHANGED <<segments, upstream>>
                 ELSE /\ urls' = u.v
                      /\ refs' = <<>>
                      /\ idx' = 1
                      /\ pc' = "loop"
                      /\ UNCHANGED <<env, isApi, parsed, found, listed, treed, filed, net>>
       ELSE /\ pc' = "tree"
            /\ UNCHANGED <<env, isApi, parsed, found, listed, treed, filed, loop, net>>

\* a name already in refs is not pushed again
PushRefsOnce(list, names) ==
  list \o SelectSeq(names, LAMBDA n : \A k \in DOMAIN list : list[k] # n)

\* line 71: refs.push(...names)
PushRefs(list, names) == list \o names

\* lines 64-66: the headers fetchModuleBranchtags sends
BranchtagHeaders(type) == IF type = "GitHub" THEN getGitHubHeaders ELSE Undefined

\* lines 69-70: the next URL of the loop is asked
RequestBranchtags ==
  /\ pc = "loop"
  /\ idx <= Len(urls)
  /\ Send(urls[idx], BranchtagHeaders(meta.v.type))
  /\ pc' = "awaitRefs"
  /\ UNCHANGED <<env, isApi, parsed, found, listed, treed, filed, loop>>

\* what the endpoint behind a URL of createBranchtagUrls can answer
RefsResponses(url, m) ==
  CASE url = GitHubBranchesUrl(m) -> GitHubBranchesResponses
    [] url = GitHubTagsUrl(m) -> GitHubTagsResponses
    [] OTHER -> GitLabRefsResponses

\* lines 70-71: decode, transform, push
ReceiveBranchtags ==
  /\ pc = "awaitRefs"
  /\ \E resp \in Answers(Pending, RefsResponses(Pending, meta.v)) :
       IF resp = NetFail THEN Fail(Pending, resp, "fetch failed")
       ELSE IF resp.body = Invalid THEN Fail(Pending, resp, "SyntaxError")
       ELSE LET names == transformBranchtags(resp.body, meta.v.type)
            IN IF names.t = "throw" THEN Fail(Pending, resp, names.message)
               ELSE /\ Settle(Pending, resp)
                    /\ refs' = PushRefs(refs, names.v)
                    /\ idx' = idx + 1
                    /\ pc' = "loop"
                    /\ UNCHANGED <<segments, outcome, isApi, parsed, found, listed,
                                   treed, filed, urls, log>>

\* lines 73 and 116-122: the loop is over, refs is returned, breadcrumbs built
FinishBranchtags ==
  /\ pc = "loop"
  /\ idx > Len(urls)
  /\ branchtags' = Arr(refs)
  /\ breadcrumbs' = Arr(Breadcrumbs(segments))
  /\ pc' = "tree"
  /\ UNCHANGED <<env, isApi, parsed, found, treed, filed, loop, net>>

\* lines 125-143, up to the await of line 132
FetchTree ==
  /\ pc = "tree"
  /\ path' = Str(Path(segments))
  /\ IF FetchesTree(meta.v.type)
       THEN /\ Send(TreeUrl(meta.v, Path(segments), branchtag), headers)
            /\ pc' = "awaitTree"
       ELSE /\ pc' = "post"
            /\ UNCHANGED net
  /\ UNCHANGED <<env, isApi, parsed, found, listed, tree, errors, filed, loop>>

\* lines 132-137
ReceiveTree ==
  /\ pc = "awaitTree"
  /\ \E resp \in Answers(Pending, ContentsResponses) :
       IF resp = NetFail THEN Fail(Pending, resp, "fetch failed")
       ELSE IF resp.body = Invalid THEN Fail(Pending, resp, "SyntaxError")
       ELSE /\ Settle(Pending, resp)
            /\ tree' = TreeOutcome(resp).tree
            /\ errors' = TreeOutcome(resp).errors
            /\ pc' = "post"
            /\ UNCHANGED <<segments, outcome, isApi, parsed, found, listed, path,
                           filed, loop, log>>

\* lines 145-180, up to the await of line 159
PostTree ==
  /\ pc = "post"
  /\ IF ~Truthy(tree)
       THEN /\ pc' = "return"
            /\ UNCHANGED <<env, tree, filed, net>>
       ELSE IF IsArray(tree)
         THEN LET sorted == SortByType(tree.v)
                  file == FindReadme(sorted)
              IN /\ tree' = Arr(sorted)
                 /\ IF meta.v.type = "GitHub" /\ Truthy(file)
                      THEN /\ Send(Url(file.v.download_url.v), Undefined)
                           /\ pc' = "awaitReadme"
                      ELSE /\ pc' = "return"
                           /\ UNCHANGED net
                 /\ UNCHANGED <<env, filed>>
         ELSE IF meta.v.type = "GitHub"
           THEN LET decoded == FileContent(tree)
                IN IF decoded.t = "throw"
                     THEN End("threw", decoded, log) /\ UNCHANGED <<segments, upstream>>
                     ELSE /\ content' = decoded
                          /\ sourceUrl' = Field(tree, "download_url")
                          /\ pc' = "return"
                          /\ UNCHANGED <<env, tree, readme, net>>
           ELSE /\ pc' = "return"
                /\ UNCHANGED <<env, tree, filed, net>>
  /\ (pc' # "idle" => UNCHANGED <<isApi, parsed, found, listed, path, errors, loop>>)

\* lines 159-160
ReceiveReadme ==
  /\ pc = "awaitReadme"
  /\ \E resp \in Answers(Pending, RawResponses) :
       IF resp = NetFail THEN Fail(Pending, resp, "fetch failed")
       ELSE /\ Settle(Pending, resp)
            /\ readme' = resp.body
            /\ pc' = "return"
            /\ UNCHANGED <<segments, outcome, isApi, parsed, found, listed, treed,
                           content, sourceUrl, loop, log>>

\* lines 182-194
Return ==
  /\ pc = "return"
  /\ End("returned", FullResult, log)
  /\ UNCHANGED <<segments, upstream>>

Next ==
  \/ \E api \in BOOLEAN : Invoke(api)
  \/ ParseSegments
  \/ LookupModule
  \/ ResolveBranchtag
  \/ ReceiveDefaultBranch
  \/ StartBranchtags
  \/ RequestBranchtags
  \/ ReceiveBranchtags
  \/ FinishBranchtags
  \/ FetchTree
  \/ ReceiveTree
  \/ PostTree
  \/ ReceiveReadme
  \/ Return

Spec == Init /\ [][Next]_vars


(* ======================= properties of the calls ======================= *)

Foo == <<"f", "o", "o">>

Bar == <<"b", "a", "r">>

Baz == <<"b", "a", "z">>

Ended(a) == outcome[a].kind # "none"

Returned(a) == outcome[a].kind = "returned"

Threw(a) == outcome[a].kind = "threw"

\* the call returned the full result (lines 182-194), not the not-found one
Full(a) == Returned(a) /\ "meta" \in DOMAIN outcome[a].value

Bases(lg) == [k \in DOMAIN lg |-> lg[k].url.base]

IsPrefix(s, t) == Len(s) <= Len(t) /\ s = SubSeq(t, 1, Len(s))

\* what a URL asked so far answered
Answered(url) == (CHOOSE e \in upstream : e.url = url).resp

(* ---------------------------------- C1 --------------------------------- *)

FooRepoBase == "https://api.github.com/repos/denoland/foo"

\* some entry of the listing is named readme.md, whatever the case
HasReadme(entries) ==
  \E k \in DOMAIN entries :
    toLowerCase(entries[k].name) = <<"r", "e", "a", "d", "m", "e", ".", "m", "d">>

ReadmeBase(entries) ==
  entries[CHOOSE k \in DOMAIN entries :
            toLowerCase(entries[k].name) = <<"r", "e", "a", "d", "m", "e", ".", "m", "d">>
         ].download_url.v

FooOrder ==
  <<FooRepoBase, FooRepoBase \o "/branches", FooRepoBase \o "/tags",
    FooRepoBase \o "/contents">>

\* C1: a call for the GitHub module foo without a branchtag in segment 0 and
\* with isApi false never has two requests in flight, a request in flight is
\* the last one sent, and its requests go, in this order, to the
\* default-branch endpoint, the branches endpoint, the tags endpoint and the
\* contents endpoint; when it returns with a directory listing as tree it
\* sent exactly those four, followed by one request to the download_url of a
\* readme.md entry (any case) exactly when the listing has one, and content
\* and sourceUrl are null.
C1_SequentialOrder ==
  segments[1] = Foo =>
    /\ (pc # "idle" /\ ~isApi) =>
         /\ Cardinality(inflight) <= 1
         /\ \A u \in inflight : log # <<>> /\ log[Len(log)].url = u
         /\ IsPrefix(Bases(SubSeq(log, 1, IF Len(log) < 4 THEN Len(log) ELSE 4)), FooOrder)
         /\ Len(log) <= 5
    /\ (Full(FALSE) /\ IsArray(outcome[FALSE].value.tree)) =>
         LET r == outcome[FALSE].value
             lg == outcome[FALSE].log
         IN /\ Bases(lg) = FooOrder \o (IF HasReadme(r.tree.v)
                                          THEN <<ReadmeBase(r.tree.v)>> ELSE <<>>)
            /\ r.content = Null
            /\ r.sourceUrl = Null

C1_Witness ==
  /\ segments[1] = Foo
  /\ Full(FALSE)
  /\ IsArray(outcome[FALSE].value.tree)
  /\ HasReadme(outcome[FALSE].value.tree.v)
  /\ Len(outcome[FALSE].log) = 5
  /\ outcome[FALSE].value.readme # Null

(* ---------------------------------- C2 --------------------------------- *)

\* the registry has nothing under the name parsed from segment 0
LookupFindsNothing ==
  /\ RegExec(segments[1]) # Null
  /\ fetchModule(RegExec(segments[1]).v.g1.v) = Null

\* C2: when the lookup of the name parsed from segment 0 finds nothing, the
\* call, with either value of isApi, sends no request and ends by returning
\* a result that holds the segments and no other field.
C2_NotFound ==
  LookupFindsNothing =>
    /\ log = <<>> /\ inflight = {}
    /\ pc \in {"idle", "parse", "lookup"}
    /\ \A a \in BOOLEAN :
         Ended(a) =>
           /\ Returned(a)
           /\ DOMAIN outcome[a].value = {"segments"}
           /\ outcome[a].value.segments = segments
           /\ outcome[a].log = <<>>

C2_Witness ==
  /\ segments[1] = <<"n", "o", "p", "e">>
  /\ Len(segments) = 2
  /\ Returned(TRUE) /\ Returned(FALSE)
  /\ outcome[TRUE].value = [segments |-> segments]

(* ---------------------------------- C8 --------------------------------- *)

RECURSIVE Href(_, _)
\* the href of entry k (from 0) of the breadcrumbs of segs
Href(segs, k) ==
  IF k = 0 THEN <<"/", "x">> ELSE Href(segs, k - 1) \o <<"/">> \o segs[k]

\* C8: a call with isApi false that returns the full result returns
\* Len(segments) + 1 breadcrumbs: the first is ("x", "/x"), and entry k is
\* segment k - 1 unchanged with the href of the entry before it followed by
\* "/" and that segment; for foo, bar, baz these are ("x","/x"),
\* ("foo","/x/foo"), ("bar","/x/foo/bar"), ("baz","/x/foo/bar/baz").
C8_Breadcrumbs ==
  Full(FALSE) =>
    LET b == outcome[FALSE].value.breadcrumbs
    IN /\ IsArray(b)
       /\ Len(b.v) = Len(segments) + 1
       /\ b.v[1] = << <<"x">>, <<"/", "x">> >>
       /\ \A k \in 1..Len(segments) : b.v[k + 1] = <<segments[k], Href(segments, k)>>
       /\ segments = <<Foo, Bar, Baz>> =>
            b.v = << << <<"x">>, <<"/", "x">> >>,
                     <<Foo, <<"/", "x", "/", "f", "o", "o">> >>,
                     <<Bar, <<"/", "x", "/", "f", "o", "o", "/", "b", "a", "r">> >>,
                     <<Baz, <<"/", "x", "/", "f", "o", "o", "/", "b", "a", "r",
                              "/", "b", "a", "z">> >> >>

C8_Witness ==
  /\ segments = <<Foo, Bar, Baz>>
  /\ Full(FALSE)
  /\ Len(outcome[FALSE].value.breadcrumbs.v) = 4


(* ---------------------------------- C3 --------------------------------- *)

ContentsBases ==
  {FooRepoBase \o "/contents", "https://api.github.com/repos/inkscape/lab/contents",
   "https://api.github.com/repos/atlassian/bb/contents"}

\* the contents request of the call that ended as outcome[a], if it sent one
AskedContents(a) == \E k \in DOMAIN outcome[a].log : outcome[a].log[k].url.base \in ContentsBases

ContentsUrlOf(a) ==
  outcome[a].log[CHOOSE k \in DOMAIN outcome[a].log :
                   outcome[a].log[k].url.base \in ContentsBases].url

\* the contents request was answered, and by a response that is not ok
ContentsNotOk(a) ==
  /\ Ended(a)
  /\ AskedContents(a)
  /\ Answered(ContentsUrlOf(a)).t = "response"
  /\ ~Answered(ContentsUrlOf(a)).ok

RECURSIVE Under(_, _)
\* segments 2..k, each preceded by "/"
Under(segs, k) == IF k <= 1 THEN <<>> ELSE Under(segs, k - 1) \o <<"/">> \o segs[k]

ExpectedPath == IF Len(segments) = 1 THEN <<"/">> ELSE Under(segments, Len(segments))

\* what C3 promises of the call that ended as outcome[a]
ErrorsCaptured(a) ==
  LET r == outcome[a].value
      lg == outcome[a].log
  IN /\ Full(a)
     /\ r.errors = Answered(ContentsUrlOf(a)).body
     /\ r.tree = Null /\ r.readme = Null /\ r.content = Null /\ r.sourceUrl = Null
     /\ r.meta # Null /\ r.meta.v.type = "GitHub" /\ r.meta.v.name.v = Foo
     /\ r.segments = segments
     /\ r.path = Str(ExpectedPath)
     /\ Template(r.branchtag) = ContentsUrlOf(a).ref
     /\ lg[Len(lg)].url = ContentsUrlOf(a)

\* C3 as claimed: whenever the contents request of a GitHub module is
\* answered by a response that is not ok, the call returns the full result
\* with errors the decoded body, tree, readme, content and sourceUrl null,
\* meta, branchtag, segments and path set, and the contents request its last.
C3_Original == \A a \in BOOLEAN : ContentsNotOk(a) => ErrorsCaptured(a)

\* C3 amended: the same, for a response that is not ok and whose body
\* resp.json() decodes; a body it cannot decode makes the call throw.
C3_ErrorsCaptured ==
  \A a \in BOOLEAN :
    ContentsNotOk(a) =>
      IF Answered(ContentsUrlOf(a)).body = Invalid THEN Threw(a) ELSE ErrorsCaptured(a)

C3_Witness ==
  /\ ContentsNotOk(FALSE)
  /\ Answered(ContentsUrlOf(FALSE)).body = ErrorBody
  /\ Full(FALSE)
  /\ outcome[FALSE].value.errors = ErrorBody
  /\ Len(segments) = 3

(* ---------------------------------- C4 --------------------------------- *)

\* the part of s before its first "@" (all of s when it has none)
BeforeAt(s) ==
  IF \E k \in DOMAIN s : s[k] = "@"
    THEN SubSeq(s, 1, (CHOOSE k \in DOMAIN s :
                         s[k] = "@" /\ \A j \in 1..(k - 1) : s[j] # "@") - 1)
    ELSE s

\* s is identifier(@branchtag)?
MatchesIdentifier(s) ==
  /\ BeforeAt(s) # <<>>
  /\ \A k \in DOMAIN BeforeAt(s) :
       BeforeAt(s)[k] \in Digits \cup LowerSet \cup {"-", "_"}

\* C4: when segment 0 is not identifier(@branchtag)?, the call never gets to
\* the module lookup, sends no request, and ends by throwing.
C4_RaisesOnBadSegment ==
  ~MatchesIdentifier(segments[1]) =>
    /\ pc \in {"idle", "parse"}
    /\ \A a \in BOOLEAN : Ended(a) => Threw(a) /\ outcome[a].log = <<>>

(* ---------------------------------- C5 --------------------------------- *)

ListingBases ==
  {FooRepoBase \o "/branches", FooRepoBase \o "/tags", "https://gitlab.com/inkscape/lab/refs"}

AsksListing(lg) == \E k \in DOMAIN lg : lg[k].url.base \in ListingBases

AsksContents(lg) == \E k \in DOMAIN lg : lg[k].url.base \in ContentsBases

\* the call returned the full result with no branchtag resolved
Unresolved(a) == Full(a) /\ ~Truthy(outcome[a].value.branchtag)

\* C5 as claimed: a call that found the module and resolved no branchtag
\* sent no branch/tag-list request and no contents request, and returns
\* branchtags, breadcrumbs and tree null.
C5_Original ==
  \A a \in BOOLEAN :
    Unresolved(a) =>
      /\ ~AsksListing(outcome[a].log)
      /\ ~AsksContents(outcome[a].log)
      /\ outcome[a].value.branchtags = Null
      /\ outcome[a].value.breadcrumbs = Null
      /\ outcome[a].value.tree = Null

\* C5 amended: an unresolved branchtag skips nothing by itself.  A call that
\* found the module and resolved no branchtag skipped the branch/tag-list
\* request, and returns branchtags and breadcrumbs null, exactly when isApi
\* is true; it skipped the contents request exactly when the module is not a
\* GitHub module, and then tree is null and its only requests are to the
\* GitLab refs endpoint; for a GitHub module the contents request was sent
\* with ref=undefined.
C5_UnresolvedBranchtag ==
  \A a \in BOOLEAN :
    Unresolved(a) =>
      LET r == outcome[a].value
          lg == outcome[a].log
      IN /\ AsksListing(lg) <=> ~a
         /\ (r.branchtags = Null) <=> a
         /\ (r.breadcrumbs = Null) <=> a
         /\ AsksContents(lg) <=> (r.meta.v.type = "GitHub")
         /\ r.meta.v.type = "GitHub" =>
              /\ r.branchtag = Undefined
              /\ ContentsUrlOf(a).ref = <<"u", "n", "d", "e", "f", "i", "n", "e", "d">>
         /\ r.meta.v.type # "GitHub" =>
              /\ r.meta.v.type = "GitLab"
              /\ r.branchtag = Null
              /\ r.tree = Null
              /\ \A k \in DOMAIN lg : lg[k].url.base = "https://gitlab.com/inkscape/lab/refs"

C5_Witness ==
  /\ Unresolved(FALSE)
  /\ outcome[FALSE].value.meta.v.type = "GitLab"
  /\ outcome[FALSE].value.branchtags # Null
  /\ Len(outcome[FALSE].value.branchtags.v) = 2
  /\ Len(outcome[FALSE].log) = 1

(* ---------------------------------- C6 --------------------------------- *)

\* the lookup finds a reference of a third provider, and segment 0 has no
\* branchtag
OtherProvider ==
  /\ RegExec(segments[1]) # Null
  /\ RegExec(segments[1]).v.g2 = Undefined
  /\ fetchModule(RegExec(segments[1]).v.g1.v) # Null
  /\ fetchModule(RegExec(segments[1]).v.g1.v).v.type \notin {"GitHub", "GitLab"}

\* C6: for a reference that is neither GitHub nor GitLab and no branchtag in
\* segment 0, the call returns the full result with branchtag "master" and
\* tree, readme, content and sourceUrl null.
C6_MasterFallback ==
  OtherProvider =>
    \A a \in BOOLEAN :
      Ended(a) =>
        /\ Full(a)
        /\ outcome[a].value.branchtag = Str(<<"m", "a", "s", "t", "e", "r">>)
        /\ outcome[a].value.tree = Null
        /\ outcome[a].value.readme = Null
        /\ outcome[a].value.content = Null
        /\ outcome[a].value.sourceUrl = Null


(* ---------------------------------- C7 --------------------------------- *)

NotListing(entry) == entry.url.base \notin ListingBases

OtherFields ==
  {"meta", "branchtag", "segments", "path", "tree", "readme", "content", "sourceUrl", "errors"}

\* C7: a call with isApi true sends no request to a branches, tags or refs
\* endpoint and, when it returns the full result, returns branchtags and
\* breadcrumbs null; against the call with isApi false for the same segments
\* and the same upstream answers, every other field of the result is the
\* same, its requests are those of that call without the listing requests,
\* in the same order, and it returns whenever that call returns.
C7_ApiMode ==
  /\ (pc # "idle" /\ isApi) => ~AsksListing(log)
  /\ Ended(TRUE) => ~AsksListing(outcome[TRUE].log)
  /\ Full(TRUE) =>
       /\ outcome[TRUE].value.branchtags = Null
       /\ outcome[TRUE].value.breadcrumbs = Null
  /\ (Full(FALSE) /\ Ended(TRUE)) => Full(TRUE)
  /\ (Full(TRUE) /\ Full(FALSE)) =>
       /\ \A f \in OtherFields : outcome[TRUE].value[f] = outcome[FALSE].value[f]
       /\ outcome[TRUE].log = SelectSeq(outcome[FALSE].log, NotListing)

C7_Witness ==
  /\ Full(TRUE) /\ Full(FALSE)
  /\ outcome[FALSE].value.branchtags # Null
  /\ Len(outcome[FALSE].value.branchtags.v) = 2
  /\ outcome[FALSE].value.breadcrumbs # Null
  /\ outcome[TRUE].value.readme # Null
  /\ Len(outcome[TRUE].log) = 3
  /\ Len(outcome[FALSE].log) = 5

(* ---------------------------------- C9 --------------------------------- *)

\* the provider of the module segment 0 names, "" when there is none
Provider ==
  IF RegExec(segments[1]) = Null \/ LookupFindsNothing THEN ""
  ELSE fetchModule(RegExec(segments[1]).v.g1.v).v.type

\* the URLs fetchModuleBranchtags has to ask for a provider, in order
ListingOrder(provider) ==
  CASE provider = "GitHub" -> <<FooRepoBase \o "/branches", FooRepoBase \o "/tags">>
    [] provider = "GitLab" -> <<"https://gitlab.com/inkscape/lab/refs">>
    [] OTHER -> <<>>

IsListing(base) == base \in ListingBases

\* the requests of lg that went to a listing URL
ListingPart(lg) == SelectSeq(Bases(lg), IsListing)

\* the names a listing answer holds, in its own order
NamesIn(body) ==
  IF IsArray(body) THEN [k \in DOMAIN body.v |-> body.v[k].v.name]
  ELSE body.v.Branches.v \o body.v.Tags.v

\* the answer is no usable listing: the request failed, the body does not
\* decode, or it has not the provider's shape
Unusable(resp) == resp = NetFail \/ resp.body = Invalid \/ resp.body = ErrorBody

RECURSIVE NamesOfAll(_)
\* the names of the answers to the URLs of bases, concatenated in that order
NamesOfAll(bases) ==
  IF bases = <<>> THEN <<>>
  ELSE NamesIn(Answered(Url(Head(bases))).body) \o NamesOfAll(Tail(bases))

\* every URL of order was asked, in order, each gave a usable answer, and
\* list is the names of the answers in that order
ListOfAll(lg, order, list) ==
  /\ ListingPart(lg) = order
  /\ \A k \in DOMAIN order : ~Unusable(Answered(Url(order[k])))
  /\ list = Arr(NamesOfAll(order))

\* C9: fetchModuleBranchtags asks the URLs of createBranchtagUrls in their
\* order, none twice.  Its list is there only when every URL was asked and
\* gave a usable answer, and is then the names of the answers concatenated
\* in URL order, a name in two answers twice.  When a URL gives no usable
\* answer the call throws, no list is returned, and that request is the
\* last one: it is not repeated and no later URL is asked.
C9_Branchtags ==
  /\ (pc \notin {"idle", "parse", "lookup", "resolve", "awaitDefault"} /\ ~isApi) =>
       /\ IsPrefix(ListingPart(log), ListingOrder(meta.v.type))
       /\ branchtags # Null => ListOfAll(log, ListingOrder(meta.v.type), branchtags)
  /\ (Ended(FALSE) /\ outcome[FALSE].log # <<>>) =>
       LET lg == outcome[FALSE].log
           order == ListingOrder(Provider)
       IN /\ IsPrefix(ListingPart(lg), order)
          /\ Full(FALSE) => ListOfAll(lg, order, outcome[FALSE].value.branchtags)
          /\ \A k \in DOMAIN lg :
               (IsListing(lg[k].url.base) /\ Unusable(Answered(lg[k].url))) =>
                 /\ Threw(FALSE)
                 /\ k = Len(lg)

C9_Witness ==
  /\ Provider = "GitHub"
  /\ Full(FALSE)
  /\ outcome[FALSE].value.branchtags = Arr(<<Str(<<"v", "1">>), Str(<<"v", "1">>)>>)

(* --------------------------------- C10 --------------------------------- *)

\* C10: in every full result, tree and errors are not both set; readme is
\* set only with a directory listing as tree; content and sourceUrl are set
\* only with a single file entry as tree; and for a GitLab module tree,
\* readme, content, sourceUrl and errors are all null.
C10_ResultShape ==
  \A a \in BOOLEAN :
    Full(a) =>
      LET r == outcome[a].value
      IN /\ ~(r.tree # Null /\ r.errors # Null)
         /\ r.readme # Null => IsArray(r.tree)
         /\ r.content # Null => r.tree.t = "object"
         /\ r.sourceUrl # Null => r.tree.t = "object"
         /\ ~(r.readme # Null /\ (r.content # Null \/ r.sourceUrl # Null))
         /\ r.meta.v.type = "GitLab" =>
              /\ r.tree = Null /\ r.readme = Null /\ r.content = Null
              /\ r.sourceUrl = Null /\ r.errors = Null

C10_Witness ==
  /\ Full(TRUE)
  /\ outcome[TRUE].value.tree.t = "object"
  /\ outcome[TRUE].value.content = Text("hi")
  /\ outcome[TRUE].value.tree.v.content = Text("aGk=")
  /\ outcome[TRUE].value.sourceUrl # Null
  /\ Full(FALSE)
  /\ outcome[FALSE].value.readme = Null

=============================================================================
